---- MODULE Spec2Model ----
(***************************************************************************)
(* img2track.py: a Track is a 2 KB snapshot of the knitting machine's      *)
(* memory. Program info (the directory) grows forward from address 0,      *)
(* pattern data grows backward from pattern_offset; both boundaries are    *)
(* kept as 16-bit words inside the buffer itself.                          *)
(*                                                                         *)
(* The buffer is a sequence of bytes; address a of the bytearray is        *)
(* element a + 1 of the sequence.                                          *)
(***************************************************************************)
EXTENDS Integers, Sequences, FiniteSets, TLC

VARIABLES
    data,   \* Track.data, the bytearray of the track (<<>> before Track())
    op,     \* the operation that ran last
    exc,    \* what it raised: "none", "Error", "BadError", "Exception",
            \* "ValueError", "ZeroDivisionError", "LibraryError"
    ret,    \* what it returned (0 when it returns nothing or raised)
    args,   \* the arguments it was called with
    disk,   \* the files written so far, in order: [path, data]
    run     \* the local variables of image2track

vars == <<data, op, exc, ret, args, disk, run>>

----------------------------------------------------------------------------
(* Program constants *)

initial_pattern_number == 901
size             == 2048       \* 0x800
pattern_offset   == 288        \* 0x0120
available_loc    == 1792       \* 0x700
pgm_info_end_loc == 1808       \* 0x710
pgm_info_size    == 7
selector_loc     == 2026       \* 0x7EA
id_padding       == 11         \* bytearray(11)

----------------------------------------------------------------------------
(* Bounds of the exploration *)

\* add_pattern is called with any of the inputs below while the directory
\* has at most MaxVaried entries
MaxVaried  == 2
\* beyond that only the run of empty patterns is followed, up to MaxEntries
MaxEntries == 101
\* a short pattern
SmallLen   == 3
\* the longest sequence of nibbles handed to pack_nibbles on its own
MaxNibbles == 3

----------------------------------------------------------------------------
(* Helpers on sequences *)

Zeros(n) == IF n <= 0 THEN <<>> ELSE [i \in 1..n |-> 0]

Fill(n, b) == IF n <= 0 THEN <<>> ELSE [i \in 1..n |-> b]

\* Python's slice bound: a negative index counts from the end, and the
\* result is clamped to 0..n
SliceIndex(i, n) ==
    IF i < 0 THEN (IF i + n < 0 THEN 0 ELSE i + n)
    ELSE IF i > n THEN n ELSE i

\* d[lo:hi]
Slice(d, lo, hi) ==
    LET a == SliceIndex(lo, Len(d))
        b == SliceIndex(hi, Len(d))
    IN  IF b <= a THEN <<>> ELSE SubSeq(d, a + 1, b)

----------------------------------------------------------------------------
(* BCD / nibble codec *)

RECURSIVE dec_digits(_)
\* the decimal digits of n >= 0, most significant first ('%d' % n)
dec_digits(n) == IF n < 10 THEN <<n>> ELSE Append(dec_digits(n \div 10), n % 10)

\* '%0*d' % (width, num), each character c as ord(c) - ord('0');
\* the sign of a negative number is the character '-', 45 - 48 = -3
to_bcd(num, width) ==
    IF num >= 0
    THEN LET s == dec_digits(num) IN Zeros(width - Len(s)) \o s
    ELSE LET s == dec_digits(-num) IN <<-3>> \o Zeros(width - 1 - Len(s)) \o s

\* '%02d' % num, as the digits of the text
fmt_02d(num) ==
    LET s == dec_digits(num) IN Zeros(2 - Len(s)) \o s

\* variant: the zero nibble follows an odd-length sequence
pack_nibbles_zero_last(nibbles) ==
    LET length == Len(nibbles)
        padded == nibbles \o Zeros(length % 2)
    IN  [j \in 1..((length + 1) \div 2) |-> padded[2 * j - 1] * 16 + padded[2 * j]]

\* a zero nibble is prepended to an odd-length sequence; one byte for each
\* i in range(0, length, 2)
pack_nibbles(nibbles) ==
    LET length == Len(nibbles)
        padded == Zeros(length % 2) \o nibbles
    IN  [j \in 1..((length + 1) \div 2) |-> padded[2 * j - 1] * 16 + padded[2 * j]]

\* two_bytes raises Exception outside 0 .. 65535
two_bytes_ok(num) == 0 <= num /\ num < 65536

two_bytes(num) == <<num \div 256, num % 256>>

program_info(offset, rows, stitches, pattern_num) ==
    LET digits == to_bcd(rows, 3) \o to_bcd(stitches, 3) \o to_bcd(pattern_num, 4)
    IN  two_bytes(offset) \o pack_nibbles(digits)

----------------------------------------------------------------------------
(* Track memory *)

\* variant: seq is inserted at location and no byte is replaced
set_bytes_insert(d, location, seq) ==
    LET n == Len(d)
        a == SliceIndex(location, n)
    IN  SubSeq(d, 1, a) \o seq \o SubSeq(d, a + 1, n)

\* self.data[location:location + len(seq)] = seq, a slice assignment: the
\* slice is replaced by seq whatever the length of either
set_bytes(d, location, seq) ==
    LET n  == Len(d)
        a  == SliceIndex(location, n)
        b0 == SliceIndex(location + Len(seq), n)
        b  == IF b0 < a THEN a ELSE b0
    IN  SubSeq(d, 1, a) \o seq \o SubSeq(d, b + 1, n)

get_word(d, loc) == d[loc + 1] * 256 + d[loc + 2]

\* self.data[loc:loc + 2] = two_bytes(word)
set_word(d, loc, word) ==
    LET n  == Len(d)
        a  == SliceIndex(loc, n)
        b0 == SliceIndex(loc + 2, n)
        b  == IF b0 < a THEN a ELSE b0
    IN  SubSeq(d, 1, a) \o two_bytes(word) \o SubSeq(d, b + 1, n)

available_offset(d) == get_word(d, available_loc)

set_available(d, offset) == set_word(d, available_loc, offset)

pgm_info_end(d) == get_word(d, pgm_info_end_loc)

set_pgm_info_end(d, offset) == set_word(d, pgm_info_end_loc, offset)

free_mem(d) == pgm_info_end(d) - available_offset(d)

\* the hex text of the entry, '%02X' for each byte, as nibble values
hex_text(entry) ==
    [i \in 1..(2 * Len(entry)) |->
        IF i % 2 = 1 THEN entry[(i + 1) \div 2] \div 16 ELSE entry[i \div 2] % 16]

\* int() of a text of hexadecimal characters read as decimal: a ValueError
\* (-1 here) when one of them is A..F
int_of(text) ==
    IF \E i \in 1..Len(text) : text[i] > 9 THEN -1
    ELSE LET RECURSIVE val(_)
             val(i) == IF i = 0 THEN 0 ELSE 10 * val(i - 1) + text[i]
         IN  val(Len(text))

\* the pattern number is read from the last 3 nibbles of the entry
pat_num(d, loc) ==
    LET entry   == Slice(d, loc, loc + pgm_info_size)
        nibbles == hex_text(entry)
    IN  int_of(Slice(nibbles, -3, Len(nibbles)))

\* add_pgm_entry up to its set_bytes: what is left when two_bytes raises
\* in set_pgm_info_end
add_pgm_entry_keep_end(d, pattern_num) ==
    LET info   == program_info(0, 0, 0, pattern_num)
        offset == pgm_info_end(d)
    IN  set_bytes(d, -offset, info)

add_pgm_entry(d, pattern_num) ==
    LET info   == program_info(0, 0, 0, pattern_num)
        offset == pgm_info_end(d)
    IN  set_pgm_info_end(set_bytes(d, -offset, info), offset - Len(info))

\* variant: a Track built without its first empty entry
Track_init_no_entry ==
    set_pgm_info_end(set_available(Zeros(size), pattern_offset), size)

\* Track.__init__
Track_init ==
    add_pgm_entry(
        set_pgm_info_end(set_available(Zeros(size), pattern_offset), size),
        initial_pattern_number)

----------------------------------------------------------------------------
(* Track.add_pattern *)

\* the scan for the first empty program info entry: the for loop over
\* loc in range(0, info_end, pgm_info_size), pattern_num counting up from
\* initial_pattern_number, stops at the first loc whose pattern number is
\* not pattern_num or whose offset word is 0; its else clause (no loc
\* stops it) raises BadError
find_empty(d, info_end) ==
    LET count == IF info_end <= 0 THEN 0
                 ELSE (info_end + pgm_info_size - 1) \div pgm_info_size
        stops == {i \in 0..(count - 1) :
                     \/ pat_num(d, i * pgm_info_size) # initial_pattern_number + i
                     \/ get_word(d, i * pgm_info_size) = 0}
    IN  IF stops = {}
        THEN [exc |-> "BadError", msg |-> "No empty entry in program info.",
              loc |-> (count - 1) * pgm_info_size,
              pattern_num |-> initial_pattern_number + count]
        ELSE
        LET first == CHOOSE i \in stops : \A j \in stops : i <= j
            loc   == first * pgm_info_size
            num   == initial_pattern_number + first
        IN  IF pat_num(d, loc) = -1
            THEN [exc |-> "ValueError", msg |-> "invalid literal for int()",
                  loc |-> loc, pattern_num |-> num]
            ELSE IF pat_num(d, loc) # num
            THEN [exc |-> "BadError", msg |-> "Pattern numbers not sequential.",
                  loc |-> loc, pattern_num |-> num]
            ELSE [exc |-> "none", msg |-> "", loc |-> loc, pattern_num |-> num]

\* variant: a space test that lets through 8 bytes too many
no_space_slack(d, pattern) == Len(pattern) > free_mem(d) + pgm_info_size + 1

\* the test that raises Error('Not enough space in track to store pattern.')
no_space(d, pattern) == Len(pattern) > free_mem(d)

\* variant: no byte of slack after the pattern
store_pattern_no_slack(d, offset, pattern) ==
    set_available(set_bytes(d, -(offset + Len(pattern)), pattern),
                  offset + Len(pattern))

\* the pattern data is stored to end at offset, and the available offset
\* moves past it and one byte more
store_pattern(d, offset, pattern) ==
    set_available(set_bytes(d, -(offset + Len(pattern)), pattern),
                  offset + Len(pattern) + 1)

\* the track after the call, what it raised and what it returned
add_pattern(d, pattern, nrows, nstitches) ==
    IF no_space(d, pattern)
    THEN [data |-> d, exc |-> "Error", ret |-> 0]
    ELSE
    LET info_end == size - pgm_info_end(d)
        found    == find_empty(d, info_end)
    IN  IF found.exc # "none"
        THEN [data |-> d, exc |-> found.exc, ret |-> 0]
        ELSE
        LET loc         == found.loc
            pattern_num == found.pattern_num
            offset      == available_offset(d)
            info        == program_info(offset, nrows, nstitches, pattern_num)
            d1          == set_bytes(d, loc, info)
        IN  IF ~two_bytes_ok(offset + Len(pattern) + 1)
            THEN [data |-> set_bytes(d1, -(offset + Len(pattern)), pattern),
                  exc |-> "Exception", ret |-> 0]
            ELSE
            LET d2 == store_pattern(d1, offset, pattern)
            IN  IF loc + Len(info) = info_end
                THEN IF ~two_bytes_ok(pgm_info_end(d2) - pgm_info_size)
                     THEN [data |-> add_pgm_entry_keep_end(d2, pattern_num + 1),
                           exc |-> "Exception", ret |-> 0]
                     ELSE [data |-> add_pgm_entry(d2, pattern_num + 1),
                           exc |-> "none", ret |-> pattern_num]
                ELSE [data |-> d2, exc |-> "none", ret |-> pattern_num]

----------------------------------------------------------------------------------------------------------------------------------------
(* Track.set_selector *)

\* the selector nibble and three zero digits go to 0x7EA; the motif and
\* position nibbles are composed from position and copies and then dropped
\* (the set_bytes that would store them is commented out)
set_selector(d, selector, position, copies) ==
    IF selector \notin {1, 2}
    THEN [data |-> d, exc |-> "Exception"]
    ELSE [data |-> set_bytes(d, selector_loc,
                             pack_nibbles(<<selector>> \o to_bcd(0, 3))),
          exc |-> "none"]

----------------------------------------------------------------------------
(* Track.write *)

halfsize == size \div 2

\* os.path.join(sector_path, '%02d' % sector_num) + ext
sector_file(sector_path, sector_num, ext) ==
    [dir |-> sector_path, name |-> fmt_02d(sector_num), ext |-> ext]

\* variant: the second half starts one byte late
sector_data_short(d, half) ==
    IF half = 0 THEN Slice(d, 0, halfsize) ELSE Slice(d, halfsize + 1, Len(d))

\* self.data[:halfsize] and self.data[halfsize:]
sector_data(d, half) ==
    IF half = 0 THEN Slice(d, 0, halfsize) ELSE Slice(d, halfsize, Len(d))

\* variant: one more byte of padding
sector_id_long(track_num) ==
    pack_nibbles(to_bcd(track_num, 2)) \o Zeros(id_padding + 1)

\* pack_nibbles(to_bcd(track_num, 2)) + bytearray(11)
sector_id(track_num) ==
    pack_nibbles(to_bcd(track_num, 2)) \o Zeros(id_padding)

\* the write_file calls of Track.write, in order
write(d, sector_path, track_num) ==
    LET sector_num == (track_num - 1) * 2
    IN  << [path |-> sector_file(sector_path, sector_num, ".dat"),
            data |-> sector_data(d, 0)],
           [path |-> sector_file(sector_path, sector_num + 1, ".dat"),
            data |-> sector_data(d, 1)],
           [path |-> sector_file(sector_path, sector_num, ".id"),
            data |-> sector_id(track_num)],
           [path |-> sector_file(sector_path, sector_num + 1, ".id"),
            data |-> sector_id(track_num)] >>

----------------------------------------------------------------------------
(* The operations of a Track, called in any order until it is written *)

NoRun == [pc |-> "none"]

\* number of whole entries in the program info region
NumEntries(d) == (size - pgm_info_end(d)) \div pgm_info_size

\* the free memory of a track that holds n - 1 empty patterns
FreeAfterEmpty(n) ==
    size - pattern_offset - pgm_info_size - (n - 1) * (pgm_info_size + 1)

\* pattern lengths around what is free
PatternLens(d) ==
    {k \in {0, SmallLen, free_mem(d) - pgm_info_size - 1, free_mem(d) - pgm_info_size,
            free_mem(d), free_mem(d) + 1} : k >= 0}

PatternBytes == {255}

\* <<rows, stitches>>
Dims == {<<2, 4>>, <<999, 200>>, <<1000, 1>>, <<3, 1000>>}

\* <<selector, position, copies>>
SelectorArgs == {<<1, 100, 0>>, <<2, 2, 1>>, <<3, 100, 1>>}

TrackNums == {1, 99}

\* every input while the directory is short; then only the run of empty
\* patterns, and the calls that find no space
Explored(d, pattern, nrows, nstitches) ==
    \/ NumEntries(d) <= MaxVaried
    \/ /\ NumEntries(d) <= MaxEntries
       /\ <<nrows, nstitches>> = <<2, 4>>
       /\ free_mem(d) = FreeAfterEmpty(NumEntries(d))
       /\ pattern = <<>> \/ no_space(d, pattern)

Init ==
    /\ data = Track_init
    /\ op = "__init__"
    /\ exc = "none"
    /\ ret = 0
    /\ args = <<>>
    /\ disk = <<>>
    /\ run = NoRun

AddPattern ==
    /\ run.pc = "none"
    /\ op # "write"
    /\ \E k \in PatternLens(data), b \in PatternBytes, dim \in Dims :
         /\ Explored(data, Fill(k, b), dim[1], dim[2])
         /\ \E r \in {add_pattern(data, Fill(k, b), dim[1], dim[2])} :
              /\ data' = r.data
              /\ op' = "add_pattern"
              /\ exc' = r.exc
              /\ ret' = r.ret
              /\ args' = <<Fill(k, b), dim[1], dim[2]>>
    /\ UNCHANGED <<disk, run>>

SetSelector ==
    /\ run.pc = "none"
    /\ op # "write"
    /\ NumEntries(data) <= MaxVaried + 1
    /\ \E a \in SelectorArgs :
         \E r \in {set_selector(data, a[1], a[2], a[3])} :
              /\ data' = r.data
              /\ op' = "set_selector"
              /\ exc' = r.exc
              /\ ret' = 0
              /\ args' = a
    /\ UNCHANGED <<disk, run>>

WriteTrack ==
    /\ run.pc = "none"
    /\ op # "write"
    /\ \E track_num \in TrackNums :
         /\ disk' = disk \o write(data, "sector_path", track_num)
         /\ op' = "write"
         /\ exc' = "none"
         /\ ret' = 0
         /\ args' = <<"sector_path", track_num>>
    /\ UNCHANGED <<data, run>>

Next ==
    \/ AddPattern
    \/ SetSelector
    \/ WriteTrack

Spec == Init /\ [][Next]_vars

----------------------------------------------------------------------------------------------------------------------------------------
(* encode_image *)

\* int(round(a / b)) for a >= 0, b > 0: Python 2 rounds half away from zero
round_div(a, b) == (2 * a + b) \div (2 * b)

\* the image library, as far as the encoder reads it: an image is its size
\* and its pixels, here one of four pictures of black (0) and white (255)
Kinds == {"black", "white", "stripes", "checks"}

getpixel(kind, x, y) ==
    IF kind = "black" THEN 0
    ELSE IF kind = "white" THEN 255
    ELSE IF kind = "stripes" THEN (IF x % 2 = 0 THEN 0 ELSE 255)
    ELSE IF (x + y) % 2 = 0 THEN 0 ELSE 255

\* the pictures Image.resize may give: a picture of one colour keeps it
resized(kind) == IF kind \in {"black", "white"} THEN {kind} ELSE Kinds

\* nrows > max_height, with aspect = nstitches / nrows and
\*   max_height = ((8 * aspect * max_size + 12.25) ** 0.5 - 3.5) / aspect:
\* in exact arithmetic nrows * (nstitches + 7) > 8 * max_size. Where the
\* two sides are equal the floating-point result falls on either side.
too_tall(nstitches, nrows, max_size) ==
    {nrows * (nstitches + 7) > 8 * max_size}
      \cup (IF nrows * (nstitches + 7) = 8 * max_size THEN {TRUE} ELSE {})

\* int(x) of a floating-point x whose exact value is floor: when the exact
\* value is the integer itself the result may fall just below it
float_floor(floor, exact) ==
    {floor} \cup (IF exact /\ floor >= 1 THEN {floor - 1} ELSE {})

\* int(nstitches * max_height / nrows): the largest w with
\* nrows * (w * w + 7 * w) <= 8 * nstitches * max_size
fit_width(nstitches, nrows, max_size) ==
    LET fits(w) == nrows * (w * w + 7 * w) <= 8 * nstitches * max_size
        w0      == CHOOSE w \in 0..nstitches : fits(w) /\ ~fits(w + 1)
    IN  float_floor(w0, nrows * (w0 * w0 + 7 * w0) = 8 * nstitches * max_size)

\* int(max_height): the largest h with
\* h * h * nstitches + 7 * h * nrows <= 8 * max_size * nrows
fit_height(nstitches, nrows, max_size) ==
    LET fits(h) == h * h * nstitches + 7 * h * nrows <= 8 * max_size * nrows
        h0      == CHOOSE h \in 0..nrows : fits(h) /\ ~fits(h + 1)
    IN  float_floor(h0, h0 * h0 * nstitches + 7 * h0 * nrows = 8 * max_size * nrows)

\* the size after the vertical stretch (stretch = <<p, q>> is p / q)
stretched(size0, stretch) ==
    IF stretch[1] = stretch[2] THEN size0
    ELSE <<size0[1], round_div(stretch[1] * size0[2], stretch[2])>>

\* the sizes the fit to one track may give, <<nstitches, nrows>>
fitted(size1, max_size, max_width) ==
    UNION { IF ~tall THEN {size1}
            ELSE UNION { IF width <= max_width
                         THEN {<<width, h>> : h \in fit_height(size1[1], size1[2], max_size)}
                         ELSE {size1}
                         : width \in fit_width(size1[1], size1[2], max_size) }
            : tall \in too_tall(size1[1], size1[2], max_size) }

\* variant: the rows are scaled and the stitches kept
capped_keep_width(size2, max_width) ==
    IF size2[1] > max_width
    THEN <<size2[1], round_div(size2[2] * max_width, size2[1])>>
    ELSE size2

\* the size after the cut to max_width
capped(size2, max_width) ==
    IF size2[1] > max_width
    THEN <<max_width, round_div(size2[2] * max_width, size2[1])>>
    ELSE size2

\* variant: the zero bits of a row follow its pixels
pattern_of_pad_after(kind, nstitches, nrows) ==
    LET pad    == (4 - (nstitches % 4)) % 4
        rowlen == nstitches + pad
        length == nrows * rowlen
        lead   == (8 - (length % 8)) % 8
        bit(i) == IF i < lead THEN 0
                  ELSE LET q == i - lead
                       IN  IF q % rowlen >= nstitches THEN 0
                           ELSE IF getpixel(kind, q % rowlen, q \div rowlen) > 0
                                THEN 0 ELSE 1
        byte(j) == LET b == 8 * (j - 1)
                   IN  128 * bit(b) + 64 * bit(b + 1) + 32 * bit(b + 2) + 16 * bit(b + 3)
                       + 8 * bit(b + 4) + 4 * bit(b + 5) + 2 * bit(b + 6) + bit(b + 7)
        imgbytes == IF length = 0 THEN <<>>
                    ELSE [j \in 1..((length + lead) \div 8) |-> byte(j)]
    IN  imgbytes \o Zeros((nrows + 1) \div 2)

\* the pattern bytes of a picture: a bit is 1 for a pixel of 0; each row is
\* led by zero bits to a multiple of 4, all of them by zero bits to a
\* multiple of 8, 8 bits to the byte; then the blank memo, 4 bits per row
pattern_of(kind, nstitches, nrows) ==
    LET pad    == (4 - (nstitches % 4)) % 4
        rowlen == nstitches + pad
        length == nrows * rowlen
        lead   == (8 - (length % 8)) % 8
        bit(i) == IF i < lead THEN 0
                  ELSE LET q == i - lead
                       IN  IF q % rowlen < pad THEN 0
                           ELSE IF getpixel(kind, (q % rowlen) - pad, q \div rowlen) > 0
                                THEN 0 ELSE 1
        byte(j) == LET b == 8 * (j - 1)
                   IN  128 * bit(b) + 64 * bit(b + 1) + 32 * bit(b + 2) + 16 * bit(b + 3)
                       + 8 * bit(b + 4) + 4 * bit(b + 5) + 2 * bit(b + 6) + bit(b + 7)
        imgbytes == IF length = 0 THEN <<>>
                    ELSE [j \in 1..((length + lead) \div 8) |-> byte(j)]
    IN  imgbytes \o Zeros((nrows + 1) \div 2)

\* img_path + '.b+w.png', the black and white copy encode_image saves
bw_file(img_path) == [dir |-> img_path, name |-> <<>>, ext |-> ".b+w.png"]

\* what encode_image may do with an image: the exception it ends with,
\* whether the copy was saved, and the result. 0 rows after the stretch
\* divide by zero in aspect, before anything is saved. A resize to 0
\* stitches or 0 rows is the library's to refuse (nothing saved) or to do:
\* 0 stitches then stop the range() over the rows, after the save, and
\* 0 rows give an empty pattern.
encode_image(img, stretch, max_size, max_width) ==
    LET size1 == stretched(img.size, stretch)
    IN  IF size1[1] = 0 \/ size1[2] = 0
        THEN {[exc |-> "ZeroDivisionError", saved |-> FALSE, kind |-> img.kind,
               pattern |-> <<>>, nrows |-> size1[2], nstitches |-> size1[1]]}
        ELSE UNION {
          LET size3 == capped(size2, max_width)
              kinds == IF size3 = img.size THEN {img.kind} ELSE resized(img.kind)
          IN  IF size3[1] = 0
              THEN {[exc |-> e, saved |-> (e = "ValueError"), kind |-> img.kind,
                     pattern |-> <<>>, nrows |-> size3[2], nstitches |-> 0]
                    : e \in {"ValueError", "LibraryError"}}
              ELSE (IF size3[2] = 0
                    THEN {[exc |-> "LibraryError", saved |-> FALSE, kind |-> img.kind,
                           pattern |-> <<>>, nrows |-> 0, nstitches |-> size3[1]]}
                    ELSE {})
                   \cup
                   {[exc |-> "none", saved |-> TRUE, kind |-> k,
                     pattern |-> pattern_of(k, size3[1], size3[2]),
                     nrows |-> size3[2], nstitches |-> size3[1]]
                    : k \in kinds}
          : size2 \in fitted(size1, max_size, max_width) }

----------------------------------------------------------------------------
(* image2track, statement by statement *)

debug == 0      \* 'a' in version is False

ImageSizes ==
    {<<4, 2>>, <<5, 3>>, <<3, 3>>, <<7, 1>>, <<1, 2000>>, <<185, 73>>, <<400, 400>>,
     <<2000, 100>>, <<201, 60>>, <<165, 1752>>}

\* <<p, q>> for the stretch p / q
Stretches == {<<1, 1>>, <<3, 2>>, <<1, 2>>}

MaxWidths == {1, 50, 200}

InitRun ==
    /\ data = <<>>
    /\ op = "image2track"
    /\ exc = "none"
    /\ ret = 0
    /\ disk = <<>>
    /\ \E size0 \in ImageSizes, kind \in Kinds, stretch \in Stretches,
          max_width \in MaxWidths :
         /\ args = <<"img_path", "sector_path", stretch, max_width>>
         /\ run = [pc |-> "Track", img |-> [size |-> size0, kind |-> kind],
                   stretch |-> stretch, max_width |-> max_width,
                   max_pattern_size |-> 0, pattern |-> <<>>, nrows |-> 0,
                   nstitches |-> 0, pattern_num |-> 0]

\* track = Track(); max_pattern_size = track.free_mem() - 1
I2T_Track ==
    /\ run.pc = "Track"
    /\ data' = Track_init
    /\ run' = [run EXCEPT !.pc = "encode_image",
                          !.max_pattern_size = free_mem(Track_init) - 1]
    /\ op' = "__init__"
    /\ UNCHANGED <<exc, ret, args, disk>>

I2T_EncodeImage ==
    /\ run.pc = "encode_image"
    /\ \E r \in encode_image(run.img, run.stretch, run.max_pattern_size, run.max_width) :
         /\ disk' = IF r.saved
                    THEN Append(disk, [path |-> bw_file("img_path"), data |-> <<>>])
                    ELSE disk
         /\ exc' = r.exc
         /\ run' = [run EXCEPT !.pc = IF r.exc = "none" THEN "add_pattern" ELSE "raised",
                               !.img = [size |-> <<r.nstitches, r.nrows>>, kind |-> r.kind],
                               !.pattern = r.pattern,
                               !.nrows = r.nrows,
                               !.nstitches = r.nstitches]
    /\ op' = "encode_image"
    /\ UNCHANGED <<data, ret, args>>

I2T_AddPattern ==
    /\ run.pc = "add_pattern"
    /\ \E r \in {add_pattern(data, run.pattern, run.nrows, run.nstitches)} :
         /\ data' = r.data
         /\ exc' = r.exc
         /\ ret' = r.ret
         /\ run' = [run EXCEPT !.pc = IF r.exc = "none" THEN "set_selector" ELSE "raised",
                               !.pattern_num = r.ret]
    /\ op' = "add_pattern"
    /\ UNCHANGED <<args, disk>>

\* track.set_selector(2, nstitches // 2, 1)
I2T_SetSelector ==
    /\ run.pc = "set_selector"
    /\ \E r \in {set_selector(data, 2, run.nstitches \div 2, 1)} :
         /\ data' = r.data
         /\ exc' = r.exc
         /\ run' = [run EXCEPT !.pc = IF r.exc = "none" THEN "write" ELSE "raised"]
    /\ op' = "set_selector"
    /\ ret' = 0
    /\ UNCHANGED <<args, disk>>

\* variant: the track is written before the pattern is added
I2T_Write_before_add ==
    /\ run.pc = "add_pattern"
    /\ disk' = disk
                \o (IF debug >= 1
                    THEN <<[path |-> [dir |-> "img_path", name |-> <<>>, ext |-> ".dat"],
                            data |-> data]>>
                    ELSE <<>>)
                \o write(data, "sector_path", 1)
    /\ run' = [run EXCEPT !.pc = "done"]
    /\ op' = "write"
    /\ exc' = "none"
    /\ ret' = <<run.pattern_num, run.nstitches, run.nrows>>
    /\ UNCHANGED <<data, args>>

\* the track in one file when debugging, then track.write(sector_path, 1),
\* and the return
I2T_Write ==
    /\ run.pc = "write"
    /\ disk' = disk
                \o (IF debug >= 1
                    THEN <<[path |-> [dir |-> "img_path", name |-> <<>>, ext |-> ".dat"],
                            data |-> data]>>
                    ELSE <<>>)
                \o write(data, "sector_path", 1)
    /\ run' = [run EXCEPT !.pc = "done"]
    /\ op' = "write"
    /\ exc' = "none"
    /\ ret' = <<run.pattern_num, run.nstitches, run.nrows>>
    /\ UNCHANGED <<data, args>>

NextRun ==
    \/ I2T_Track
    \/ I2T_EncodeImage
    \/ I2T_AddPattern
    \/ I2T_SetSelector
    \/ I2T_Write

SpecRun == InitRun /\ [][NextRun]_vars

----------------------------------------------------------------------------
(* pack_nibbles, called on its own *)

Nibbles == 0..15

NibbleSeqs == UNION {[1..n -> Nibbles] : n \in 0..MaxNibbles}

InitCodec ==
    /\ data = <<>>
    /\ op = "call"
    /\ exc = "none"
    /\ ret = <<>>
    /\ disk = <<>>
    /\ run = [pc |-> "pack_nibbles"]
    /\ \E nibbles \in NibbleSeqs : args = <<nibbles>>

PackNibbles ==
    /\ run.pc = "pack_nibbles"
    /\ ret' = pack_nibbles(args[1])
    /\ op' = "pack_nibbles"
    /\ run' = [pc |-> "returned"]
    /\ UNCHANGED <<data, exc, args, disk>>

NextCodec == PackNibbles

SpecCodec == InitCodec /\ [][NextCodec]_vars

----------------
(* Reading the track back, field by field *)

\* the value of a sequence of decimal digits
DigitsValue(digits) ==
    LET RECURSIVE val(_)
        val(i) == IF i = 0 THEN 0 ELSE 10 * val(i - 1) + digits[i]
    IN  val(Len(digits))

\* the 7 bytes of the directory slot at address loc
Slot(d, loc) == SubSeq(d, loc + 1, loc + pgm_info_size)

\* a slot as a 16-bit big-endian offset and 10 BCD digits: rows (3),
\* stitches (3), pattern number (4)
DecodeEntry(d, loc) ==
    LET e == Slot(d, loc)
        n == [i \in 1..10 |->
                IF i % 2 = 1 THEN e[2 + (i + 1) \div 2] \div 16
                             ELSE e[2 + i \div 2] % 16]
    IN  [offset   |-> e[1] * 256 + e[2],
         rows     |-> 100 * n[1] + 10 * n[2] + n[3],
         stitches |-> 100 * n[4] + 10 * n[5] + n[6],
         num      |-> 1000 * n[7] + 100 * n[8] + 10 * n[9] + n[10],
         bcd      |-> \A i \in 1..10 : n[i] <= 9]

\* the directory region [0, size - pgm_info_end) is whole entries, the last
\* one empty and no other
TrailingEmpty(d) ==
    LET info_end == size - pgm_info_end(d)
        n        == info_end \div pgm_info_size
    IN  /\ info_end % pgm_info_size = 0
        /\ n >= 1
        /\ \A i \in 0..(n - 1) :
             (DecodeEntry(d, i * pgm_info_size).offset = 0) <=> (i = n - 1)

\* the directory holds patterns 901 .. 900 + n and then one empty entry
\* numbered 901 + n
DirectoryIs(d, n) ==
    /\ size - pgm_info_end(d) = (n + 1) * pgm_info_size
    /\ \A j \in 1..n :
         LET e == DecodeEntry(d, (j - 1) * pgm_info_size)
         IN  e.bcd /\ e.num = 900 + j /\ e.offset # 0
    /\ LET e == DecodeEntry(d, n * pgm_info_size)
       IN  e.bcd /\ e.num = 901 + n /\ e.offset = 0

AddReturned == op = "add_pattern" /\ exc = "none"

----------------------------------------------------------------------------
(* Claims *)

\* C1 (as claimed): in every state reachable by add_pattern calls,
\* free_mem() = pgm_info_end() - available_offset() is >= 0.
C1_FreeMemNonNegative == free_mem(data) >= 0

\* C2: add_pattern with a pattern longer than free_mem() raises the
\* out-of-space Error and leaves every byte of the track, and so
\* available_offset() and pgm_info_end(), as it was.
C2_NoSpaceNoMutation ==
    [][(op' = "add_pattern" /\ Len(args'[1]) > free_mem(data))
         => (exc' = "Error" /\ data' = data)]_vars

\* C2 witness: a track that holds a pattern has refused one longer than
\* its free memory
C2_Witness ==
    /\ op = "add_pattern" /\ exc = "Error"
    /\ Len(args[1]) > free_mem(data)
    /\ NumEntries(data) >= 2
    /\ free_mem(data) > 0

\* C3 (as claimed): the directory region is whole 7-byte entries of which
\* exactly the last has a zero offset field, for any rows and stitches.
C3_TrailingEmptyEntry == TrailingEmpty(data)

\* C4 (as claimed): while every pattern fits in free memory the i-th
\* add_pattern returns 900 + i and leaves the directory 901 .. 900 + i
\* followed by one empty entry numbered 901 + i (i is the number of
\* entries the directory held before the call).
C4_SequentialNumbers ==
    [][(op' = "add_pattern" /\ Len(args'[1]) <= free_mem(data))
         => /\ exc' = "none"
            /\ ret' = 900 + NumEntries(data)
            /\ DirectoryIs(data', NumEntries(data))]_vars

\* C4 again, only for calls with rows and stitches of at most 3 digits on
\* a directory that ends in its empty entry: the 100th call still fails,
\* pat_num reads 3 of the 4 digits of pattern number 1000.
C4_SequentialNumbersValidDims ==
    [][(/\ op' = "add_pattern"
        /\ Len(args'[1]) <= free_mem(data)
        /\ args'[2] <= 999 /\ args'[3] <= 999
        /\ TrailingEmpty(data))
         => /\ exc' = "none"
            /\ ret' = 900 + NumEntries(data)
            /\ DirectoryIs(data', NumEntries(data))]_vars

\* C5 (as claimed): a successful add_pattern of k bytes reduces free_mem()
\* by exactly k + 1.
C5_FreeMemDropsByLenPlus1 ==
    [][(op' = "add_pattern" /\ exc' = "none")
         => free_mem(data') = free_mem(data) - (Len(args'[1]) + 1)]_vars

\* C5 (amended): a successful add_pattern of k bytes reduces free_mem() by
\* k + 1 + 7 when rows and stitches have at most 3 digits each (the call
\* also appends a 7-byte empty entry), and by k + 1 when one of them has
\* more (the entry written is longer than a slot and no empty entry is
\* appended).
C5_FreeMemDrop ==
    [][(op' = "add_pattern" /\ exc' = "none")
         => free_mem(data') = free_mem(data) - (Len(args'[1]) + 1)
              - (IF args'[2] <= 999 /\ args'[3] <= 999 THEN pgm_info_size ELSE 0)]_vars

\* C5 witness: a second, non-empty pattern was stored
C5_Witness ==
    /\ AddReturned
    /\ Len(args[1]) > 0 /\ args[2] <= 999 /\ args[3] <= 999
    /\ ret = 902

\* C6 (as claimed): after add_pattern(pattern, rows, stitches) returns p,
\* the slot at (p - 901) * 7 holds the available_offset() of before the
\* call and BCD digits that decode to rows, stitches and p, for every rows
\* and stitches add_pattern accepts.
C6_EntryDecodes ==
    [][(op' = "add_pattern" /\ exc' = "none")
         => LET e == DecodeEntry(data', (ret' - 901) * pgm_info_size)
            IN  /\ e.bcd
                /\ e.offset = available_offset(data)
                /\ e.rows = args'[2]
                /\ e.stitches = args'[3]
                /\ e.num = ret']_vars

\* C7 (as claimed): right after construction free_mem() is 0x120 - 7 = 281
\* and the sole entry decodes to pattern number 901 with offset 0.
C7_FreshFreeMem281 ==
    op = "__init__"
      => /\ free_mem(data) = 281
         /\ DirectoryIs(data, 0)
         /\ DecodeEntry(data, 0).num = 901

\* C7 (amended): right after construction free_mem() is
\* 0x800 - 7 - 0x120 = 1753, and the sole entry decodes to pattern number
\* 901 with offset 0.
C7_FreshTrack ==
    op = "__init__"
      => /\ free_mem(data) = 1753
         /\ pgm_info_end(data) = size - pgm_info_size
         /\ available_offset(data) = pattern_offset
         /\ DirectoryIs(data, 0)
         /\ DecodeEntry(data, 0).num = 901

\* C7 witness: the track as constructed
C7_Witness == op = "__init__" /\ Len(data) = size /\ free_mem(data) = 1753

\* the .id files of the last write for track number T = args[2]: the
\* third and fourth file written, named N and N + 1 with N = (T - 1) * 2,
\* idlen bytes each, the first byte the two BCD digits of T, the rest 0
IdFiles(idlen) ==
    LET T == args[2]
        N == (T - 1) * 2
    IN  /\ Len(disk) = 4
        /\ \A h \in {0, 1} :
             LET f == disk[3 + h]
             IN  /\ f.path.ext = ".id"
                 /\ f.path.dir = args[1]
                 /\ Len(f.path.name) >= 2
                 /\ DigitsValue(f.path.name) = N + h
                 /\ Len(f.data) = idlen
                 /\ f.data[1] = 16 * (T \div 10) + (T % 10)
                 /\ \A i \in 2..idlen : f.data[i] = 0

\* C9 (as claimed): write for track number T writes N.id and (N + 1).id,
\* each exactly 13 bytes: the BCD-packed track number, then zeros.
C9_IdFiles13 == op = "write" => IdFiles(13)

\* C9 (amended): write for track number T (1 <= T <= 99) writes N.id and
\* (N + 1).id with N = (T - 1) * 2, each exactly 12 bytes: the first byte
\* is the BCD-packed 2-digit track number, the other 11 are zero.
C9_IdFiles12 == op = "write" => IdFiles(12)

\* C9 witness: a track was written under a two-digit track number
C9_Witness == op = "write" /\ args[2] = 99 /\ Len(disk) = 4

\* C10: write for track number T writes N.dat and (N + 1).dat of 1024
\* bytes each, whose concatenation is the 2048-byte buffer, and leaves the
\* buffer as it was.
C10_DatFiles ==
    [][op' = "write"
         => LET T == args'[2]
                N == (T - 1) * 2
            IN  /\ data' = data
                /\ Len(data) = 2048
                /\ Len(disk') = Len(disk) + 4
                /\ \A h \in {0, 1} :
                     LET f == disk'[Len(disk) + 1 + h]
                     IN  /\ f.path.ext = ".dat"
                         /\ f.path.dir = args'[1]
                         /\ Len(f.path.name) >= 2
                         /\ DigitsValue(f.path.name) = N + h
                         /\ Len(f.data) = 1024
                /\ disk'[Len(disk) + 1].data \o disk'[Len(disk) + 2].data = data]_vars

\* C10 witness: a track with a stored pattern and a selector was written
C10_Witness ==
    /\ op = "write"
    /\ NumEntries(data) >= 2
    /\ data[selector_loc + 1] # 0
    /\ Len(disk) = 4

\* add_pattern has returned a pattern number to image2track
AddedInRun == run.pattern_num >= initial_pattern_number

\* a sector file: nn.dat or nn.id in the sector folder
IsSectorFile(f) == f.path.dir = "sector_path" /\ f.path.ext \in {".dat", ".id"}

\* C8 (as claimed): in image2track no file of any kind is written before
\* add_pattern has returned successfully, and no sector file is written
\* when add_pattern raises.
C8_NoWriteBeforeAdd ==
    /\ disk # <<>> => AddedInRun
    /\ (op = "add_pattern" /\ exc # "none")
         => \A i \in 1..Len(disk) : ~IsSectorFile(disk[i])

\* C8 (amended): in image2track no sector file (.dat or .id) is written
\* before add_pattern has returned successfully, so none is written when
\* add_pattern raises; what is written before add_pattern is called is
\* the black and white copy img_path.b+w.png that encode_image saves.
C8_NoSectorFileBeforeAdd ==
    /\ \A i \in 1..Len(disk) : IsSectorFile(disk[i]) => AddedInRun
    /\ ~AddedInRun
         => \A i \in 1..Len(disk) : disk[i].path = bw_file("img_path")
    /\ run.pc = "add_pattern" => Len(disk) = 1

\* C8 witness: a run that stored its pattern and then wrote the four
\* sector files after the copy
C8_Witness ==
    /\ run.pc = "done"
    /\ AddedInRun
    /\ Len(disk) = 5
    /\ disk[1].path = bw_file("img_path")
    /\ \A i \in 2..5 : IsSectorFile(disk[i])

----------------------------------------------------------------------------
(* The reference encoding of a bitmap, built bit by bit *)

\* the bits of row y: 1 for a pixel of intensity 0, led by zero bits to a
\* multiple of 4
RefRow(kind, w, y) ==
    Zeros((4 - (w % 4)) % 4)
      \o [x \in 1..w |-> IF getpixel(kind, x - 1, y) = 0 THEN 1 ELSE 0]

RECURSIVE RefRows(_, _, _, _)
\* rows lo .. hi - 1, one after the other
RefRows(kind, w, lo, hi) ==
    IF hi <= lo THEN <<>>
    ELSE IF hi = lo + 1 THEN RefRow(kind, w, lo)
    ELSE RefRows(kind, w, lo, (lo + hi) \div 2) \o RefRows(kind, w, (lo + hi) \div 2, hi)

\* the value of 8 bits, the first the most significant
RefByte(bits, j) ==
    LET RECURSIVE val(_)
        val(i) == IF i = 0 THEN 0 ELSE 2 * val(i - 1) + bits[8 * (j - 1) + i]
    IN  val(8)

RefEncoding(kind, w, h) ==
    LET rows == RefRows(kind, w, 0, h)
        bits == Zeros((8 - (Len(rows) % 8)) % 8) \o rows
    IN  [j \in 1..(Len(bits) \div 8) |-> RefByte(bits, j)]
          \o Zeros((h + 1) \div 2)

\* ceil(a / b)
CeilDiv(a, b) == (a + b - 1) \div b

RefLength(w, h) == CeilDiv(h * (w + ((4 - (w % 4)) % 4)), 8) + CeilDiv(h, 2)

\* encode_image leaves an image of this size as it is
NoRescale(size0, stretch, max_size, max_width) ==
    /\ stretch[1] = stretch[2]
    /\ size0[1] <= max_width
    /\ size0[2] * (size0[1] + 7) < 8 * max_size

\* C11: the pattern encode_image returns is the reference encoding of the
\* bitmap it encodes (w >= 1 stitches, h >= 0 rows): a bit is 1 for a pixel
\* of intensity 0, each row is led by (4 - w mod 4) mod 4 zero bits, the
\* rows together are led by zero bits to a multiple of 8 and packed 8 bits
\* to the byte, most significant first, and ceil(h / 2) zero bytes follow;
\* its length is ceil(h * (w + (4 - w mod 4) mod 4) / 8) + ceil(h / 2); for
\* an image that needs no rescaling the bitmap is the image and the rows
\* and stitches returned are its height and width.
C11_EncoderMatchesReference ==
    [][(op' = "encode_image" /\ exc' = "none")
         => /\ run'.nstitches >= 1 /\ run'.nrows >= 0
            /\ run'.pattern = RefEncoding(run'.img.kind, run'.nstitches, run'.nrows)
            /\ Len(run'.pattern) = RefLength(run'.nstitches, run'.nrows)
            /\ run'.img.size = <<run'.nstitches, run'.nrows>>
            /\ NoRescale(run.img.size, run.stretch, run.max_pattern_size, run.max_width)
                 => /\ run'.img = run.img
                    /\ <<run'.nstitches, run'.nrows>> = run.img.size]_vars

\* C11 witness: a 3 x 3 picture of checks was encoded as it is: 12 bits
\* led by 4, and 2 bytes of memo
C11_Witness ==
    /\ op = "encode_image" /\ exc = "none"
    /\ run.stretch = <<1, 1>> /\ run.max_width = 50
    /\ run.img = [size |-> <<3, 3>>, kind |-> "checks"]
    /\ run.pattern = <<5, 37, 0, 0>>
    /\ <<run.nstitches, run.nrows>> = <<3, 3>>

\* C12 (as claimed): the pattern encode_image returns is at most max_size
\* bytes long for every image size, stretch and max_width, so that in
\* image2track add_pattern never raises the out-of-space Error and the
\* pattern fits in the track together with its directory entries
\* (free_mem() stays >= 0).
C12_PatternWithinMaxSize ==
    /\ (op = "encode_image" /\ exc = "none")
         => Len(run.pattern) <= run.max_pattern_size
    /\ op = "add_pattern"
         => /\ exc # "Error"
            /\ free_mem(data) >= 0

\* C13 (as claimed): for every directory entry that is a program_info of
\* rows <= 999, stitches <= 999 and a pattern number p of 4 BCD digits,
\* pat_num(loc) is p, the number a decode of the 4-digit field gives.
C13_PatNumIsField ==
    \A i \in 0..(NumEntries(data) - 1) :
        LET e == DecodeEntry(data, i * pgm_info_size)
        IN  (/\ e.bcd
             /\ Slot(data, i * pgm_info_size)
                  = program_info(e.offset, e.rows, e.stitches, e.num))
              => pat_num(data, i * pgm_info_size) = e.num

\* the nibbles of a sequence of bytes: the high one, then the low one
unpack_nibbles(bytes) ==
    [i \in 1..(2 * Len(bytes)) |->
        IF i % 2 = 1 THEN bytes[(i + 1) \div 2] \div 16 ELSE bytes[i \div 2] % 16]

\* C14: for every sequence of nibbles (0..15), unpacking what pack_nibbles
\* returns gives the sequence back, preceded by one zero nibble exactly
\* when its length is odd; the result is ceil(length / 2) bytes.
C14_PackUnpack ==
    op = "pack_nibbles"
      => LET nibbles == args[1]
         IN  /\ unpack_nibbles(ret) = Zeros(Len(nibbles) % 2) \o nibbles
             /\ Len(ret) = CeilDiv(Len(nibbles), 2)
             /\ \A j \in 1..Len(ret) : ret[j] \in 0..255

\* C14 witness: three nibbles were packed into two bytes
C14_Witness ==
    /\ op = "pack_nibbles"
    /\ args[1] = <<15, 0, 9>>
    /\ ret = <<15, 9>>

\* C15 (as claimed): a successful add_pattern of k bytes at directory
\* offset o leaves its bytes at addresses [2048 - o - k, 2048 - o), keeps
\* every byte of the patterns stored before, [2048 - o, 2048 - 0x120),
\* leaves one byte of slack before the next pattern, and ends with the
\* directory, its new empty entry included, below the pattern's bytes.
C15_PatternsIntact ==
    [][(op' = "add_pattern" /\ exc' = "none")
         => LET o == available_offset(data)
                k == Len(args'[1])
            IN  /\ SubSeq(data', size - o - k + 1, size - o) = args'[1]
                /\ SubSeq(data', size - o + 1, size - pattern_offset)
                     = SubSeq(data, size - o + 1, size - pattern_offset)
                /\ available_offset(data') = o + k + 1
                /\ size - pgm_info_end(data') <= size - o - k]_vars

\* C16 (as claimed): no add_pattern on a track that began fresh raises
\* BadError, whatever the pattern lengths, rows and stitches; the only
\* failure it reports is the out-of-space Error.
C16_NoBadError == op = "add_pattern" => exc \in {"none", "Error"}

\* a write of n bytes at location replaces the n bytes at addresses
\* a .. a + n - 1 of the 2048, a = location counted from the end when it
\* is negative: the slice neither stops at an end of the buffer nor is
\* empty for having wrapped past address 0
Inside(location, n) ==
    LET a == IF location < 0 THEN location + size ELSE location
    IN  /\ 0 <= a
        /\ a + n <= size
        /\ location < 0 => (n = 0 \/ location + n < 0)

\* C17: on a track that began fresh the buffer is 2048 bytes long in every
\* state, and every write of add_pattern (the directory entry, the pattern
\* bytes addressed from the end, the new empty entry, the pointer words)
\* and of set_selector (the selector bytes) replaces bytes inside
\* [0, 2048): nothing is inserted, cut off or wrapped.
C17_BufferSize ==
    /\ Len(data) = size
    /\ [][/\ Len(data') = size
          /\ (op' = "add_pattern" /\ exc' = "none")
               => LET o        == available_offset(data)
                      k        == Len(args'[1])
                      info_end == size - pgm_info_end(data)
                      found    == find_empty(data, info_end)
                      info     == program_info(o, args'[2], args'[3], found.pattern_num)
                  IN  /\ Inside(found.loc, Len(info))
                      /\ Inside(-(o + k), k)
                      /\ Inside(available_loc, 2)
                      /\ found.loc + Len(info) = info_end
                           => /\ Inside(-pgm_info_end(data), pgm_info_size)
                              /\ Inside(pgm_info_end_loc, 2)
          /\ (op' = "set_selector" /\ exc' = "none")
               => Inside(selector_loc, Len(pack_nibbles(<<args'[1]>> \o to_bcd(0, 3))))]_vars

\* C17 witness: a second pattern was stored on a track whose selector is
\* set, in a buffer of 2048 bytes
C17_Witness ==
    /\ AddReturned /\ ret = 902
    /\ Len(args[1]) = SmallLen
    /\ data[selector_loc + 1] # 0
    /\ Len(data) = size

\* C18: the stitch count encode_image returns is at most max_width W,
\* whatever the image size (stitches >= 1, rows >= 1), the stretch and the
\* value of max_height: the fit to one track changes the size only to a
\* width <= W, and the cut sets the stitches to W whenever they exceed W.
C18_StitchesWithinMaxWidth ==
    [][(op' = "encode_image" /\ exc' = "none")
         => LET W     == run.max_width
                size1 == stretched(run.img.size, run.stretch)
            IN  /\ run'.nstitches <= W
                /\ \A size2 \in fitted(size1, run.max_pattern_size, W) :
                     /\ size2 # size1 => size2[1] <= W
                     /\ size2[1] > W => capped(size2, W)[1] = W
                     /\ size2[1] <= W => capped(size2, W) = size2]_vars

\* C18 witness: an image 400 wide was cut to 50 stitches, too wide for
\* the fit to one track to be taken
C18_Witness ==
    /\ op = "encode_image" /\ exc = "none"
    /\ run.max_width = 50
    /\ run.nstitches = 50 /\ run.nrows = 50
    /\ Len(run.pattern) = RefLength(50, 50)

\* the positions set_selector may be called with: nstitches // 2 for
\* 1 .. 200 stitches
Positions == 0..100

\* what a set_selector step leaves as it was: the two pointer words, the
\* directory and the stored pattern bytes
SelectorFrame(d, d1) ==
    /\ Len(d1) = Len(d)
    /\ available_offset(d1) = available_offset(d)
    /\ pgm_info_end(d1) = pgm_info_end(d)
    /\ SubSeq(d1, 1, size - pgm_info_end(d)) = SubSeq(d, 1, size - pgm_info_end(d))
    /\ SubSeq(d1, size - available_offset(d) + 1, size - pattern_offset)
         = SubSeq(d, size - available_offset(d) + 1, size - pattern_offset)

\* C19 (as claimed): set_selector(selector, position, copies) with
\* selector 1 or 2 records the selector and the position in the buffer (a
\* call with another position leaves another buffer) and changes neither
\* pointer word, no directory entry and no pattern byte; with any other
\* selector it raises and leaves the buffer as it was.
C19_SelectorAndPosition ==
    [][op' = "set_selector"
         => IF args'[1] \in {1, 2}
            THEN /\ exc' = "none"
                 /\ SelectorFrame(data, data')
                 /\ data'[selector_loc + 1] \div 16 = args'[1]
                 /\ \A p \in Positions :
                      p # args'[2]
                        => set_selector(data, args'[1], p, args'[3]).data # data'
            ELSE /\ exc' = "Exception"
                 /\ data' = data]_vars

\* C19 without the position: the selector is recorded at 0x7EA, the rest
\* of the claim holds, and the 5 bytes from 0x7FB on, where the position
\* was to go, stay 0.
C19_SelectorOnly ==
    [][op' = "set_selector"
         => IF args'[1] \in {1, 2}
            THEN /\ exc' = "none"
                 /\ SelectorFrame(data, data')
                 /\ data'[selector_loc + 1] \div 16 = args'[1]
                 /\ SubSeq(data', 2044, size) = Zeros(5)
                 /\ \A p \in Positions :
                      set_selector(data, args'[1], p, args'[3]).data = data'
            ELSE /\ exc' = "Exception"
                 /\ data' = data]_vars

====
